---- MODULE Spec2Model ----
(***************************************************************************)
(* coco/utils.py: the interactive input reader net_input and the           *)
(* TtyIOParser it hands the typed line to.                                  *)
(*                                                                         *)
(* Bytes and characters are integers (byte values / code points); a bytes  *)
(* object or a str is a sequence of them; a chunk list ([b'..', b'..']) is *)
(* a sequence of such sequences.                                           *)
(***************************************************************************)
EXTENDS Integers, Sequences, FiniteSets, TLC

VARIABLES
    \* ---- net_input(client, prompt, sensitive) ----
    pc,          \* "Idle" | "Reading" | "EOF" | "Submitted" | "Aborted" | "Raised"
    input_data,  \* the edit buffer: the chunks appended since entry / the last Ctrl-C
    data,        \* the chunk the last client.recv(1) returned
    closed,      \* client.closed
    sensitive,   \* the sensitive parameter
    sent,        \* the writes to the peer made by the last step, in order
    ret,         \* the value net_input returned
    parse_calls, \* how often net_input invoked parser.parse_input
    parse_arg,   \* the chunk list passed to parser.parse_input
    hist,        \* every chunk read so far, in order
    \* ---- a TtyIOParser object and the calls made on it ----
    parser,      \* stream (decoder + escape state machine) and screen
    p_calls,     \* parse calls made on the object so far
    p_op,        \* the last call: "none" | "parse_input" | "parse_output"
    p_data,      \* its data argument
    p_sep,       \* its sep argument (parse_output)
    p_out        \* its outcome: [raised, value, display]

netvars == <<pc, input_data, data, closed, sensitive, sent, ret, parse_calls,
             parse_arg, hist>>
parservars == <<parser, p_calls, p_op, p_data, p_sep, p_out>>
vars == <<pc, input_data, data, closed, sensitive, sent, ret, parse_calls,
          parse_arg, hist, parser, p_calls, p_op, p_data, p_sep, p_out>>

(***************************************************************************)
(* Bounds of the model.                                                    *)
(***************************************************************************)
Width == 10        \* TtyIOParser(width=...)
Height == 3        \* TtyIOParser(height=...)
MaxReads == 4      \* reads of one net_input session
MaxCmd == 3        \* characters of a typed command after a prompt
MaxChunks == 3     \* chunks of terminal output fed to one parse call
MaxReuse == 2      \* chunks per call when one parser serves two calls

(***************************************************************************)
(* Bytes the source names.                                                 *)
(***************************************************************************)
ETX == 3
EOT == 4
ESC == 27
STAR == 42

Min(a, b) == IF a < b THEN a ELSE b
Max(a, b) == IF a > b THEN a ELSE b
SetMax(S) == CHOOSE m \in S : \A n \in S : n <= m
SetMin(S) == CHOOSE m \in S : \A n \in S : m <= n

(***************************************************************************)
(* Python str / bytes operations.                                          *)
(***************************************************************************)
\* str.isspace() of one character; also the regex class \s
IsSpace(c) == c \in {9, 10, 11, 12, 13, 28, 29, 30, 31, 32, 133, 160}

\* s.strip()
Strip(s) ==
    LET keep == {i \in 1..Len(s) : ~IsSpace(s[i])}
    IN  IF keep = {} THEN <<>> ELSE SubSeq(s, SetMin(keep), SetMax(keep))

\* s.startswith(p)
StartsWith(s, p) == Len(s) >= Len(p) /\ SubSeq(s, 1, Len(p)) = p

\* s * n
RECURSIVE Repeat(_, _)
Repeat(s, n) == IF n <= 0 THEN <<>> ELSE s \o Repeat(s, n - 1)

\* sep.join(parts)
RECURSIVE Join(_, _)
Join(sep, parts) ==
    IF parts = <<>> THEN <<>>
    ELSE IF Len(parts) = 1 THEN parts[1]
    ELSE parts[1] \o sep \o Join(sep, Tail(parts))

\* parts[0:-1]
ButLast(parts) == SubSeq(parts, 1, Len(parts) - 1)

CRLF == <<13, 10>>

wrap_with_line_feed(s, before, after) ==
    Repeat(CRLF, before) \o s \o Repeat(CRLF, after)

(***************************************************************************)
(* pyte: ByteStream (incremental UTF-8 decoder + escape state machine)     *)
(* attached to a Screen of Width columns and Height lines.                 *)
(***************************************************************************)
SPACE == 32
STUB == 0          \* the cell after a double-width glyph: its data is ""
REPLACEMENT == 65533

BlankRow == [i \in 1..Width |-> SPACE]

\* pyte.Screen(width, height) / Screen.reset(): blank grid, cursor home
BlankScreen == [buf |-> [r \in 1..Height |-> BlankRow], x |-> 0, y |-> 0]

\* TtyIOParser.__init__
NewParser == [screen |-> BlankScreen, st |-> "ground", pend |-> <<>>]

\* wcwidth(c) for the characters the model draws
wcwidth(c) ==
    IF c < 32 \/ (c >= 127 /\ c < 160) THEN -1
    ELSE IF c >= 19968 /\ c <= 40959 THEN 2
    ELSE 1

\* bytes a UTF-8 sequence starting with lead byte b needs (0: not a lead byte)
Utf8Need(b) ==
    IF b >= 194 /\ b <= 223 THEN 2
    ELSE IF b >= 224 /\ b <= 239 THEN 3
    ELSE IF b >= 240 /\ b <= 244 THEN 4
    ELSE 0

Utf8Cont(b) == b >= 128 /\ b <= 191

Utf8CodePoint(bs) ==
    IF Len(bs) = 2 THEN (bs[1] - 192) * 64 + (bs[2] - 128)
    ELSE IF Len(bs) = 3
         THEN (bs[1] - 224) * 4096 + (bs[2] - 128) * 64 + (bs[3] - 128)
    ELSE (bs[1] - 240) * 262144 + (bs[2] - 128) * 4096
         + (bs[3] - 128) * 64 + (bs[4] - 128)

\* the decoder on a byte with nothing pending
Utf8Start(b) ==
    IF b < 128 THEN [pend |-> <<>>, out |-> <<b>>]
    ELSE IF Utf8Need(b) > 0 THEN [pend |-> <<b>>, out |-> <<>>]
    ELSE [pend |-> <<>>, out |-> <<REPLACEMENT>>]

\* codecs.getincrementaldecoder("utf-8")("replace").decode(b): one byte
Utf8Decode(pend, b) ==
    IF pend = <<>> THEN Utf8Start(b)
    ELSE IF Utf8Cont(b)
         THEN LET p == Append(pend, b)
              IN  IF Len(p) = Utf8Need(p[1])
                  THEN [pend |-> <<>>, out |-> <<Utf8CodePoint(p)>>]
                  ELSE [pend |-> p, out |-> <<>>]
    ELSE LET r == Utf8Start(b)
         IN  [pend |-> r.pend, out |-> <<REPLACEMENT>> \o r.out]

\* Screen.carriage_return
carriage_return(s) == [s EXCEPT !.x = 0]

\* Screen.index / Screen.linefeed (LNM is off): down one line, scrolling
\* the grid up when the cursor is on the last line
linefeed(s) ==
    IF s.y = Height - 1
    THEN [s EXCEPT !.buf = [r \in 1..Height |->
                              IF r < Height THEN s.buf[r + 1] ELSE BlankRow]]
    ELSE [s EXCEPT !.y = s.y + 1]

\* Screen.backspace = cursor_back(1)
backspace(s) ==
    LET x0 == IF s.x = Width THEN s.x - 1 ELSE s.x
    IN  [s EXCEPT !.x = Max(x0 - 1, 0)]

\* Screen.tab: next tab stop (every 8 columns) or the last column
tab(s) ==
    LET stops == {t \in 1..(Width - 1) : t % 8 = 0 /\ s.x < t}
    IN  [s EXCEPT !.x = IF stops = {} THEN Width - 1 ELSE SetMin(stops)]

\* Screen.cursor_up(1)
cursor_up(s) == [s EXCEPT !.y = Max(s.y - 1, 0)]

\* Screen.erase_in_line(0): from the cursor to the end of the line
erase_in_line(s) ==
    [s EXCEPT !.buf[s.y + 1] =
        [i \in 1..Width |-> IF i >= s.x + 1 THEN SPACE ELSE s.buf[s.y + 1][i]]]

\* Screen.draw of one character (DECAWM is on: a full line wraps first)
draw(s, c) ==
    LET w == wcwidth(c)
        s1 == IF s.x = Width THEN linefeed(carriage_return(s)) ELSE s
        row == s1.buf[s1.y + 1]
    IN  IF w = 1
        THEN [s1 EXCEPT !.buf[s1.y + 1][s1.x + 1] = c,
                        !.x = Min(s1.x + 1, Width)]
        ELSE IF w = 2
        THEN [s1 EXCEPT !.buf[s1.y + 1] =
                  [i \in 1..Width |->
                      IF i = s1.x + 1 THEN c
                      ELSE IF i = s1.x + 2 THEN STUB
                      ELSE row[i]],
                        !.x = Min(s1.x + 2, Width)]
        ELSE s1

\* the C0 controls the stream dispatches to the screen
BasicControls == {7, 8, 9, 10, 11, 12, 13, 14, 15}

basic_dispatch(s, c) ==
    IF c = 8 THEN backspace(s)
    ELSE IF c = 9 THEN tab(s)
    ELSE IF c \in {10, 11, 12} THEN linefeed(s)
    ELSE IF c = 13 THEN carriage_return(s)
    ELSE s

\* the CSI final bytes the model feeds: A (cursor up), K (erase in line);
\* any other final byte has no handler and changes nothing
csi_dispatch(s, c) ==
    IF c = 65 THEN cursor_up(s)
    ELSE IF c = 75 THEN erase_in_line(s)
    ELSE s

\* Stream._parser_fsm on one decoded character
FeedChar(p, c) ==
    IF p.st = "ground"
    THEN IF c = ESC THEN [p EXCEPT !.st = "escape"]
         ELSE IF c = 155 THEN [p EXCEPT !.st = "csi"]
         ELSE IF c \in BasicControls
              THEN [p EXCEPT !.screen = basic_dispatch(p.screen, c)]
         ELSE IF c \in {0, 127} THEN p
         ELSE [p EXCEPT !.screen = draw(p.screen, c)]
    ELSE IF p.st = "escape"
    THEN IF c = 91 THEN [p EXCEPT !.st = "csi"]
         ELSE [p EXCEPT !.st = "ground"]
    ELSE \* "csi"
         IF c \in {7, 8, 9, 10, 11, 12, 13}
         THEN [p EXCEPT !.screen = basic_dispatch(p.screen, c)]
         ELSE IF c \in {32, 62} THEN p
         ELSE [p EXCEPT !.screen = csi_dispatch(p.screen, c),
                        !.st = "ground"]

RECURSIVE FeedChars(_, _)
FeedChars(p, cs) ==
    IF cs = <<>> THEN p ELSE FeedChars(FeedChar(p, Head(cs)), Tail(cs))

\* ByteStream.feed(d): decode, then run the state machine
RECURSIVE feed(_, _)
feed(p, d) ==
    IF d = <<>> THEN p
    ELSE LET r == Utf8Decode(p.pend, Head(d))
         IN  feed(FeedChars([p EXCEPT !.pend = r.pend], r.out), Tail(d))

\* for d in data: self.stream.feed(d)
RECURSIVE FeedAll(_, _)
FeedAll(p, chunks) ==
    IF chunks = <<>> THEN p ELSE FeedAll(feed(p, Head(chunks)), Tail(chunks))

\* Screen.display renders a row cell by cell, skipping the stub after a
\* double-width glyph; a stub met anywhere else has data "" and char[0]
\* raises IndexError
RECURSIVE RenderOK(_, _)
RenderOK(row, x) ==
    IF x > Width THEN TRUE
    ELSE IF row[x] = STUB THEN FALSE
    ELSE IF wcwidth(row[x]) = 2 THEN RenderOK(row, x + 2)
    ELSE RenderOK(row, x + 1)

RECURSIVE Render(_, _)
Render(row, x) ==
    IF x > Width THEN <<>>
    ELSE IF wcwidth(row[x]) = 2 THEN <<row[x]>> \o Render(row, x + 2)
    ELSE <<row[x]>> \o Render(row, x + 1)

\* self.screen.display: the rendered lines, or IndexError
display(s) ==
    IF \E r \in 1..Height : ~RenderOK(s.buf[r], 1)
    THEN [raised |-> TRUE, lines |-> <<>>]
    ELSE [raised |-> FALSE, lines |-> [r \in 1..Height |-> Render(s.buf[r], 1)]]

(***************************************************************************)
(* TtyIOParser                                                             *)
(***************************************************************************)
MYSQL == <<109, 121, 115, 113, 108, 62>>      \* "mysql>"

\* where the first alternative of ps1_pattern, ^\[?.*@.*\]?[\$#]\s, ends
\* when matched at the start of s (0: no match).  Both .* are greedy, so
\* the match runs to the last "$" or "#" that is followed by whitespace
\* and preceded by an "@".
Ps1End(s) ==
    LET J == {j \in 1..(Len(s) - 1) :
                 /\ s[j] \in {36, 35}
                 /\ IsSpace(s[j + 1])
                 /\ \E i \in 1..(j - 1) : s[i] = 64}
    IN  IF J = {} THEN 0 ELSE SetMax(J) + 1

\* the second alternative, mysql>\s, is not anchored: sub() removes every
\* occurrence, scanning left to right
RECURSIVE MysqlSub(_)
MysqlSub(s) ==
    IF Len(s) < Len(MYSQL) + 1 THEN s
    ELSE IF StartsWith(s, MYSQL) /\ IsSpace(s[Len(MYSQL) + 1])
         THEN MysqlSub(SubSeq(s, Len(MYSQL) + 2, Len(s)))
    ELSE <<Head(s)>> \o MysqlSub(Tail(s))

\* self.ps1_pattern.sub('', command)
clean_ps1_etc(command) ==
    LET e == Ps1End(command)
    IN  IF e > 0 THEN MysqlSub(SubSeq(command, e + 1, Len(command)))
        ELSE MysqlSub(command)

\* non-blank lines, each stripped
OutputLinesStripped(lines) ==
    SelectSeq([i \in 1..Len(lines) |-> Strip(lines[i])], LAMBDA l : l # <<>>)

\* the lines parse_output keeps: non-blank ones, as rendered
OutputLines(lines) == SelectSeq(lines, LAMBDA l : Strip(l) # <<>>)

\* the lines parse_input keeps: stripped, non-empty
RECURSIVE CommandLines(_)
CommandLines(lines) ==
    IF lines = <<>> THEN <<>>
    ELSE LET line == Strip(Head(lines))
         IN  IF line # <<>> THEN <<line>> \o CommandLines(Tail(lines))
             ELSE CommandLines(Tail(lines))

\* what parse_output returns from the lines it collected
OutputValue(output, sep) == Strip(Join(sep, ButLast(output)))

\* TtyIOParser.parse_output(data, sep): feeds, reads the display inside
\* try/except IndexError, resets the screen, returns the joined lines
parse_output(p, chunks, sep) ==
    LET fed == FeedAll(p, chunks)
        d == display(fed.screen)
        output == IF d.raised THEN <<>> ELSE OutputLines(d.lines)
    IN  [parser |-> [fed EXCEPT !.screen = BlankScreen],
         raised |-> FALSE,
         value |-> OutputValue(output, sep),
         display |-> d]

\* TtyIOParser.parse_input(data): feeds, reads the display (no try), takes
\* the last stripped non-empty line, resets the screen, strips the prompt.
\* An IndexError from the display leaves the method before screen.reset().
parse_input(p, chunks) ==
    LET fed == FeedAll(p, chunks)
        d == display(fed.screen)
        lines == CommandLines(d.lines)
        command == IF lines # <<>> THEN lines[Len(lines)] ELSE <<>>
    IN  IF d.raised
        THEN [parser |-> fed, raised |-> TRUE, value |-> <<>>, display |-> d]
        ELSE [parser |-> [fed EXCEPT !.screen = BlankScreen],
              raised |-> FALSE,
              value |-> Strip(clean_ps1_etc(command)),
              display |-> d]

(***************************************************************************)
(* coco/char.py: the character tables net_input looks its chunk up in.     *)
(***************************************************************************)
BACKSPACE_CHAR == [k \in {<<8>>, <<127>>} |-> <<8, 27, 91, 75>>]
ENTER_CHAR == {<<13>>, <<10>>, <<13, 10>>}
UNSUPPORTED_CHAR == {<<27>>, <<27, 91, 65>>, <<27, 91, 66>>,
                     <<27, 91, 67>>, <<27, 91, 68>>}
BELL_CHAR == <<7>>

(***************************************************************************)
(* net_input(client, prompt='Opt> ', sensitive, before=0, after=0)         *)
(***************************************************************************)
prompt == <<79, 112, 116, 62, 32>>            \* 'Opt> '
before == 0
after == 0

\* a write to the peer: the client method called and its argument
Write(via, payload) == [via |-> via, payload |-> payload]

\* a Python return value: None, or a str
NoneRet == [none |-> TRUE, val |-> <<>>]
Str(s) == [none |-> FALSE, val |-> s]

\* what client.recv(1) can return: nothing, or one byte
Keys == {<<>>, <<ETX>>, <<EOT>>, <<8>>, <<127>>, <<13>>, <<ESC>>, <<91>>, <<65>>,
         <<STAR>>}

\* the tests of the loop body, in the order the code makes them
IsEof(d) == Len(d) = 0 \/ closed
IsBackspace(d) == d \in DOMAIN BACKSPACE_CHAR
IsCtrlC(d) == StartsWith(d, <<ETX>>)
IsCtrlD(d) == StartsWith(d, <<EOT>>)
IsUnsupported(d) == StartsWith(d, <<ESC>>) \/ d \in UNSUPPORTED_CHAR
IsEnter(d) == d \in ENTER_CHAR

\* a pop from the wrong end
PopFirst(buf) == Tail(buf)

\* input_data.pop()
Pop(buf) == SubSeq(buf, 1, Len(buf) - 1)

\* an echo that ignores the mask
EchoVerbatim(d, masked) == Write("send", d)

\* the echo of an ordinary chunk
Echo(d, masked) ==
    IF masked THEN Write("send_unicode", Repeat(<<STAR>>, Len(d)))
    ELSE Write("send", d)

\* data = client.recv(1)
Recv(d) ==
    /\ pc = "Reading"
    /\ Len(hist) < MaxReads
    /\ data' = d
    /\ hist' = Append(hist, d)
    /\ UNCHANGED <<closed, sensitive, p_calls, p_op, p_data, p_sep, p_out>>

\* an end of input reported as the abort sentinel
ReadEOFAsAbort(d) ==
    /\ Recv(d)
    /\ IsEof(d)
    /\ pc' = "EOF"
    /\ ret' = Str(<<113>>)
    /\ sent' = <<>>
    /\ UNCHANGED <<input_data, parse_calls, parse_arg, parser>>

\* if len(data) == 0 or client.closed: break   (net_input then returns None)
ReadEOF(d) ==
    /\ Recv(d)
    /\ IsEof(d)
    /\ pc' = "EOF"
    /\ ret' = NoneRet
    /\ sent' = <<>>
    /\ UNCHANGED <<input_data, parse_calls, parse_arg, parser>>

\* if data in char.BACKSPACE_CHAR: pop and erase, or ring the bell
Backspace(d) ==
    /\ Recv(d)
    /\ ~IsEof(d)
    /\ IsBackspace(d)
    /\ IF Len(input_data) > 0
       THEN /\ input_data' = Pop(input_data)
            /\ sent' = <<Write("send", BACKSPACE_CHAR[d])>>
       ELSE /\ input_data' = input_data
            /\ sent' = <<Write("send", BELL_CHAR)>>
    /\ UNCHANGED <<pc, ret, parse_calls, parse_arg, parser>>

\* a Ctrl-C that rewrites the prompt and keeps the buffer
CtrlCKeepsBuffer(d) ==
    /\ Recv(d)
    /\ ~IsEof(d) /\ ~IsBackspace(d)
    /\ IsCtrlC(d)
    /\ sent' = <<Write("send_unicode", <<94, 67, 13, 10>> \o prompt \o <<32>>)>>
    /\ UNCHANGED <<input_data, pc, ret, parse_calls, parse_arg, parser>>

\* if data.startswith(b'\x03'): write ^C and the prompt, clear the buffer
CtrlC(d) ==
    /\ Recv(d)
    /\ ~IsEof(d) /\ ~IsBackspace(d)
    /\ IsCtrlC(d)
    /\ sent' = <<Write("send_unicode", <<94, 67, 13, 10>> \o prompt \o <<32>>)>>
    /\ input_data' = <<>>
    /\ UNCHANGED <<pc, ret, parse_calls, parse_arg, parser>>

\* a Ctrl-D honoured on an empty line only, as a shell does
CtrlDOnEmptyLine(d) ==
    /\ Recv(d)
    /\ ~IsEof(d) /\ ~IsBackspace(d) /\ ~IsCtrlC(d)
    /\ IsCtrlD(d)
    /\ IF input_data = <<>>
       THEN pc' = "Aborted" /\ ret' = Str(<<113>>)
       ELSE UNCHANGED <<pc, ret>>
    /\ sent' = <<>>
    /\ UNCHANGED <<input_data, parse_calls, parse_arg, parser>>

\* elif data.startswith(b'\x04'): return 'q'
CtrlD(d) ==
    /\ Recv(d)
    /\ ~IsEof(d) /\ ~IsBackspace(d) /\ ~IsCtrlC(d)
    /\ IsCtrlD(d)
    /\ pc' = "Aborted"
    /\ ret' = Str(<<113>>)
    /\ sent' = <<>>
    /\ UNCHANGED <<input_data, parse_calls, parse_arg, parser>>

\* if data.startswith(b'\x1b') or data in char.UNSUPPORTED_CHAR: send b''
Unsupported(d) ==
    /\ Recv(d)
    /\ ~IsEof(d) /\ ~IsBackspace(d) /\ ~IsCtrlC(d) /\ ~IsCtrlD(d)
    /\ IsUnsupported(d)
    /\ sent' = <<Write("send", <<>>)>>
    /\ UNCHANGED <<pc, input_data, ret, parse_calls, parse_arg, parser>>

\* if data in char.ENTER_CHAR: two line breaks, parse the buffer, return.
\* An exception of parse_input leaves net_input with it.
Enter(d) ==
    /\ Recv(d)
    /\ ~IsEof(d) /\ ~IsBackspace(d) /\ ~IsCtrlC(d) /\ ~IsCtrlD(d)
    /\ ~IsUnsupported(d)
    /\ IsEnter(d)
    /\ sent' = <<Write("send", wrap_with_line_feed(<<>>, 0, 2))>>
    /\ parse_calls' = parse_calls + 1
    /\ parse_arg' = input_data
    /\ LET r == parse_input(parser, input_data)
       IN  /\ parser' = r.parser
           /\ IF r.raised
              THEN /\ pc' = "Raised"
                   /\ ret' = NoneRet
                   /\ input_data' = input_data
              ELSE /\ pc' = "Submitted"
                   /\ ret' = Str(Strip(r.value))
                   /\ input_data' = <<>>

\* else: echo the chunk (masked when sensitive) and append it to the buffer
Ordinary(d) ==
    /\ Recv(d)
    /\ ~IsEof(d) /\ ~IsBackspace(d) /\ ~IsCtrlC(d) /\ ~IsCtrlD(d)
    /\ ~IsUnsupported(d) /\ ~IsEnter(d)
    /\ sent' = <<Echo(d, sensitive)>>
    /\ input_data' = Append(input_data, d)
    /\ UNCHANGED <<pc, ret, parse_calls, parse_arg, parser>>

\* the peer closes the channel while net_input waits in recv
PeerClose ==
    /\ pc = "Reading"
    /\ ~closed
    /\ closed' = TRUE
    /\ UNCHANGED <<pc, input_data, data, sensitive, sent, ret, parse_calls,
                   parse_arg, hist, parser, p_calls, p_op, p_data, p_sep, p_out>>

NoCall == [raised |-> FALSE, value |-> <<>>,
           display |-> [raised |-> FALSE, lines |-> <<>>]]

ParserIdle ==
    /\ parser = NewParser
    /\ p_calls = 0
    /\ p_op = "none"
    /\ p_data = <<>>
    /\ p_sep = <<>>
    /\ p_out = NoCall

\* net_input up to its loop: empty buffer, a parser of its own, prompt sent
Init ==
    /\ pc = "Reading"
    /\ input_data = <<>>
    /\ data = <<>>
    /\ closed = FALSE
    /\ sensitive \in BOOLEAN
    /\ sent = <<Write("send_unicode", wrap_with_line_feed(prompt, before, after))>>
    /\ ret = NoneRet
    /\ parse_calls = 0
    /\ parse_arg = <<>>
    /\ hist = <<>>
    /\ ParserIdle

Next ==
    \/ \E d \in Keys :
          \/ ReadEOF(d)
          \/ Backspace(d)
          \/ CtrlC(d)
          \/ CtrlD(d)
          \/ Unsupported(d)
          \/ Enter(d)
          \/ Ordinary(d)
    \/ PeerClose

Spec == Init /\ [][Next]_vars

(***************************************************************************)
(* Calls on a TtyIOParser object.                                          *)
(***************************************************************************)
\* prompts a line can start with: none, "b@b$ ", "[b@b]# ", "mysql> "
Prompts == {<<>>, <<98, 64, 98, 36, 32>>, <<91, 98, 64, 98, 93, 35, 32>>,
            MYSQL \o <<32>>}
CmdAlphabet == {98, 36, 32}                   \* "b", "$", " "
Cmds == UNION {[1..n -> CmdAlphabet] : n \in 0..MaxCmd}
TextInputs == {<<p, c>> : p \in Prompts, c \in Cmds}

\* chunks of terminal output: "b", "b\n", "\r", a double-width glyph
\* (U+4E2D in UTF-8), backspace + erase-to-end-of-line
CtlChunks == {<<98>>, <<98, 10>>, <<13>>, <<228, 184, 173>>, <<8, 27, 91, 75>>}
CtlInputs == UNION {[1..n -> CtlChunks] : n \in 0..MaxChunks}

ParseInputs == TextInputs \cup CtlInputs
Seps == {<<10>>, <<124>>}                     \* "\n", "|"

\* chunk lists cut anywhere, also inside an escape sequence
ReuseChunks == {<<ESC>>, <<91>>, <<65>>, <<98>>}
ReuseInputs == UNION {[1..n -> ReuseChunks] : n \in 0..MaxReuse}
MaxCalls == 2

ParseInputCall(d) ==
    LET r == parse_input(parser, d)
    IN  /\ parser' = r.parser
        /\ p_calls' = p_calls + 1
        /\ p_op' = "parse_input"
        /\ p_data' = d
        /\ p_sep' = <<>>
        /\ p_out' = [raised |-> r.raised, value |-> r.value, display |-> r.display]
        /\ UNCHANGED netvars

ParseOutputCall(d, sep) ==
    LET r == parse_output(parser, d, sep)
    IN  /\ parser' = r.parser
        /\ p_calls' = p_calls + 1
        /\ p_op' = "parse_output"
        /\ p_data' = d
        /\ p_sep' = sep
        /\ p_out' = [raised |-> r.raised, value |-> r.value, display |-> r.display]
        /\ UNCHANGED netvars

\* a parser just constructed, no net_input session
InitParse ==
    /\ pc = "Idle"
    /\ input_data = <<>>
    /\ data = <<>>
    /\ closed = FALSE
    /\ sensitive = FALSE
    /\ sent = <<>>
    /\ ret = NoneRet
    /\ parse_calls = 0
    /\ parse_arg = <<>>
    /\ hist = <<>>
    /\ ParserIdle

\* one call on a fresh parser
NextParse ==
    \/ \E d \in ParseInputs : p_calls < 1 /\ ParseInputCall(d)
    \/ \E d \in ParseInputs, sep \in Seps : p_calls < 1 /\ ParseOutputCall(d, sep)

ParseSpec == InitParse /\ [][NextParse]_vars

\* MaxCalls calls in a row on the same parser
NextReuse ==
    \/ \E d \in ReuseInputs : p_calls < MaxCalls /\ ParseInputCall(d)
    \/ \E d \in ReuseInputs, sep \in Seps :
          p_calls < MaxCalls /\ ParseOutputCall(d, sep)

ReuseSpec == InitParse /\ [][NextReuse]_vars

(***************************************************************************)
(* Properties.                                                             *)
(***************************************************************************)
Q == Str(<<113>>)                              \* the sentinel 'q'
LastRead == hist[Len(hist)]

\* a step of the loop: one more chunk has been read
ReadStep == pc = "Reading" /\ Len(hist') = Len(hist) + 1

\* the chunk read passed the end-of-input test of line 311
Dispatched == Len(data) > 0 /\ ~closed

ERASE == <<8, 27, 91, 75>>

\* C1: a backspace chunk that reaches the dispatch removes exactly the last
\* chunk of a non-empty buffer (the earlier chunks keep value and order) and
\* sends the mapped erase sequence; on an empty buffer the buffer stays
\* empty and BELL is sent.  Either way the reader stays in Reading and that
\* one write is all that is sent.
C1_Backspace ==
    [][ (ReadStep /\ Dispatched' /\ data' \in DOMAIN BACKSPACE_CHAR) =>
          /\ pc' = "Reading"
          /\ Len(sent') = 1
          /\ IF Len(input_data) >= 1
             THEN /\ Len(input_data') = Len(input_data) - 1
                  /\ \A i \in 1..Len(input_data') : input_data'[i] = input_data[i]
                  /\ sent'[1] = Write("send", BACKSPACE_CHAR[data'])
             ELSE /\ input_data' = <<>>
                  /\ sent'[1] = Write("send", BELL_CHAR) ]_vars

\* two chunks typed, then a backspace: the first chunk is what is left
C1_Witness ==
    /\ pc = "Reading"
    /\ Dispatched
    /\ data \in DOMAIN BACKSPACE_CHAR
    /\ hist = << <<65>>, <<91>>, data >>
    /\ input_data = << <<65>> >>
    /\ sent = <<Write("send", ERASE)>>

\* C2 (as amended): a chunk starting with 0x04 that is read while the
\* channel is not closed ends the session with the sentinel "q", whatever
\* the buffer holds, and parse_input has not been invoked.
C2_CtrlD_OpenChannel ==
    (Len(hist) > 0 /\ StartsWith(LastRead, <<EOT>>) /\ ~closed) =>
        (pc = "Aborted" /\ ret = Q /\ parse_calls = 0)

\* C2 (as claimed): whenever a chunk starting with 0x04 is read, at any
\* point of the session, net_input returns "q" without invoking parse_input.
C2_CtrlD_Always ==
    (Len(hist) > 0 /\ StartsWith(LastRead, <<EOT>>)) =>
        (pc = "Aborted" /\ ret = Q /\ parse_calls = 0)

\* 0x04 after keystrokes that left chunks in the buffer
C2_Witness ==
    /\ pc = "Aborted"
    /\ ret = Q
    /\ Len(hist) >= 3
    /\ Len(input_data) >= 2

\* C3: a chunk starting with 0x03 that reaches the dispatch with a non-empty
\* buffer empties the buffer and writes "^C\r\n<prompt> ", the reader staying
\* in Reading; when the very next chunk read is in ENTER, net_input returns
\* the empty string.
C3_CtrlC ==
    [][ /\ (ReadStep /\ Dispatched' /\ StartsWith(data', <<ETX>>)
              /\ Len(input_data) > 0) =>
            /\ input_data' = <<>>
            /\ sent' = <<Write("send_unicode",
                               <<94, 67, 13, 10>> \o prompt \o <<32>>)>>
            /\ pc' = "Reading"
        /\ (ReadStep /\ Len(hist) > 0 /\ StartsWith(data, <<ETX>>)
              /\ Dispatched' /\ data' \in ENTER_CHAR) =>
            /\ pc' = "Submitted"
            /\ ret' = Str(<<>>) ]_vars

\* a chunk typed, then 0x03, then ENTER
C3_Witness ==
    /\ pc = "Submitted"
    /\ hist = << <<65>>, <<ETX>>, <<13>> >>
    /\ ret = Str(<<>>)
    /\ input_data = <<>>

\* an ordinary chunk: none of the special cases of the loop
IsOrdinary(d) ==
    /\ Len(d) > 0
    /\ d \notin DOMAIN BACKSPACE_CHAR
    /\ ~StartsWith(d, <<ETX>>)
    /\ ~StartsWith(d, <<EOT>>)
    /\ ~StartsWith(d, <<ESC>>)
    /\ d \notin UNSUPPORTED_CHAR
    /\ d \notin ENTER_CHAR

\* C4: with sensitive set, an ordinary chunk that reaches the dispatch is
\* answered by one text write of exactly len(data) "*" and never by the
\* chunk itself (a chunk of "*" alone looks like its mask), and the chunk
\* appended to the buffer is the chunk as read; at ENTER the buffer of
\* unmasked chunks is what parse_input is given.
C4_Sensitive ==
    [][ /\ (ReadStep /\ sensitive /\ Dispatched' /\ IsOrdinary(data')) =>
            /\ Len(sent') = 1
            /\ Len(sent'[1].payload) = Len(data')
            /\ \A i \in 1..Len(data') : sent'[1].payload[i] = STAR
            /\ sent'[1].via = "send_unicode"
            /\ (\E i \in 1..Len(data') : data'[i] # STAR) =>
                  sent'[1].payload # data'
            /\ input_data' = Append(input_data, data')
        /\ (ReadStep /\ sensitive /\ Dispatched' /\ data' \in ENTER_CHAR) =>
            /\ parse_calls' = parse_calls + 1
            /\ parse_arg' = input_data ]_vars

\* a masked session: two chunks typed, then ENTER hands both to parse_input
C4_Witness ==
    /\ sensitive
    /\ pc = "Submitted"
    /\ hist = << <<65>>, <<91>>, <<13>> >>
    /\ parse_arg = << <<65>>, <<91>> >>
    /\ ret = Str(<<65, 91>>)

\* C9: a read that returns no bytes, or any read on a closed channel, ends
\* the loop at once: nothing is sent, parse_input is not invoked, nothing is
\* raised, and net_input returns None, which is not "q"; a user abort sends
\* nothing and parses nothing either, so only the return value tells them
\* apart.
C9_EOF ==
    [][ /\ (ReadStep /\ (Len(data') = 0 \/ closed')) =>
            /\ pc' = "EOF"
            /\ sent' = <<>>
            /\ parse_calls' = 0
            /\ ret' = NoneRet
            /\ ret' # Q
            /\ input_data' = input_data
        /\ (ReadStep /\ pc' = "Aborted") =>
            /\ sent' = <<>>
            /\ parse_calls' = 0
            /\ ret' = Q ]_vars

\* the channel is closed with a byte still to read and chunks in the buffer
C9_Witness ==
    /\ pc = "EOF"
    /\ closed
    /\ Len(data) > 0
    /\ Len(input_data) > 0
    /\ ret = NoneRet

\* the chunk at position i belongs to an arrow-key sequence ESC [ A..D
InArrowKey(h, i) ==
    \/ h[i] = <<ESC>> /\ i < Len(h) /\ h[i + 1] = <<91>>
    \/ h[i] = <<91>> /\ i > 1 /\ h[i - 1] = <<ESC>>
    \/ /\ h[i] \in {<<65>>, <<66>>, <<67>>, <<68>>}
       /\ i > 2 /\ h[i - 1] = <<91>> /\ h[i - 2] = <<ESC>>

\* a chunk the claim says is neither echoed nor buffered
Silent(h, i) ==
    \/ h[i] \in DOMAIN BACKSPACE_CHAR
    \/ StartsWith(h[i], <<ETX>>)
    \/ StartsWith(h[i], <<ESC>>)
    \/ h[i] \in UNSUPPORTED_CHAR
    \/ InArrowKey(h, i)

\* the buffer the claim describes after the reads h[1..n]
RECURSIVE ClaimedBuffer(_, _)
ClaimedBuffer(h, n) ==
    IF n = 0 THEN <<>>
    ELSE LET b == ClaimedBuffer(h, n - 1)
         IN  IF h[n] \in DOMAIN BACKSPACE_CHAR
             THEN SubSeq(b, 1, Len(b) - 1)
             ELSE IF StartsWith(h[n], <<ETX>>) THEN <<>>
             ELSE IF Silent(h, n) THEN b
             ELSE Append(b, h[n])

\* C10 (as claimed): while reading, the buffer is the ordinary chunks read
\* since entry or the last 0x03, less one per effective backspace; a chunk
\* that is backspace, 0x03, starts with 0x1b, is in UNSUPPORTED or belongs to
\* an arrow-key sequence is neither echoed nor buffered, the escape and
\* arrow-key chunks being answered by an empty write only; at ENTER two line
\* breaks are written, parse_input is called once with the buffer and its
\* trimmed result is returned.
C10_BufferAndEcho ==
    [][ (ReadStep /\ Dispatched') =>
          /\ pc' = "Reading" => input_data' = ClaimedBuffer(hist', Len(hist'))
          /\ Silent(hist', Len(hist')) =>
                /\ \A i \in 1..Len(sent') : sent'[i].payload # data'
                /\ Len(input_data') <= Len(input_data)
          /\ (StartsWith(data', <<ESC>>) \/ data' \in UNSUPPORTED_CHAR
                \/ InArrowKey(hist', Len(hist'))) =>
                sent' = <<Write("send", <<>>)>>
          /\ (data' \in ENTER_CHAR /\ ~Silent(hist', Len(hist'))) =>
                /\ sent' = <<Write("send", CRLF \o CRLF)>>
                /\ parse_calls' = parse_calls + 1
                /\ parse_arg' = input_data
                /\ ret' = Str(Strip(parse_input(NewParser, input_data).value))
      ]_vars

\* C5 (as claimed): every parse call returns with the parser as it was when
\* constructed, so a second call on the same parser returns what the same
\* call returns on a fresh parser.
C5_NotCumulative ==
    /\ p_calls >= 1 => parser = NewParser
    /\ (p_calls = 2 /\ p_op = "parse_input") =>
          /\ p_out.raised = parse_input(NewParser, p_data).raised
          /\ p_out.value = parse_input(NewParser, p_data).value
    /\ (p_calls = 2 /\ p_op = "parse_output") =>
          p_out.value = parse_output(NewParser, p_data, p_sep).value

\* C6 (as claimed): when reading the display raises, parse_input and
\* parse_output both return normally, with a result built from the lines
\* read so far (none).
C6_FailureSwallowed ==
    (p_calls >= 1 /\ p_out.display.raised) =>
        (~p_out.raised /\ p_out.value = <<>>)

\* the rows of the display that are not blank, top to bottom
NonBlankRows(lines) ==
    LET S == {i \in 1..Len(lines) : \E k \in 1..Len(lines[i]) : ~IsSpace(lines[i][k])}
    IN  CHOOSE f \in [1..Cardinality(S) -> S] :
            \A i, j \in 1..Cardinality(S) : i < j => f[i] < f[j]

\* the rows joined by sep, all but the last of them
JoinedButLast(rows, sep) ==
    IF Len(rows) < 2 THEN <<>>
    ELSE Join(sep, [i \in 1..(Len(rows) - 1) |-> rows[i]])

C8_PromptStrippedOnly ==
    /\ \A p \in Prompts, c \in Cmds :
          (p_op = "parse_input" /\ p_data = <<p, c>> /\ Strip(c) # <<>>) =>
              (~p_out.raised /\ p_out.value = Strip(c))
    /\ (p_op = "parse_input" /\ p_data = <<>>) => p_out.value = <<>>

====
